---- MODULE Spec2Model ----
(***************************************************************************)
(* Sequential model-based optimization as entered through gp_minimize      *)
(* (ProcessOptimizer/optimizer/gp.py).  gp_minimize creates the random     *)
(* generator, cooks the default Gaussian-process estimator and hands       *)
(* everything to the optimization driver (base_minimize), whose loop is    *)
(* modelled here as a state machine: initial points, random starts,        *)
(* guided iterations (fit, propose, evaluate, callbacks).                  *)
(***************************************************************************)
EXTENDS Integers, Sequences, FiniteSets, TLC

\* ---------------------------------------------------------------- bounds
MaxCalls == 4           \* n_calls ranges over 0..MaxCalls
MaxRandomStarts == 1    \* n_random_starts ranges over 0..MaxRandomStarts
PointCount == 3         \* the search space holds the points 0..PointCount-1
RngModulus == 8         \* the generator has RngModulus states
NPoints == 2            \* n_points: candidates sampled per acquisition optimization
NRestarts == 1          \* n_restarts_optimizer: start points of the local optimizer
NCallbacks == 2         \* number of registered callbacks

\* ------------------------------------------------------ program constants
Int32Max == 2147483647  \* np.iinfo(np.int32).max

None == "None"

\* No number: where a point or a seed is expected and there is none.
Nil == 0 - 1

\* No error reached the caller.
NoError == [type |-> "none", call |-> 0]

Points == 0 .. (PointCount - 1)

Strategies == <<"LCB", "EI", "PI">>

StrategyIds == 1 .. Len(Strategies)

Min2(a, b) == IF a < b THEN a ELSE b

Max2(a, b) == IF a > b THEN a ELSE b

IsPrefix(s, t) == Len(s) <= Len(t) /\ \A i \in 1 .. Len(s) : s[i] = t[i]

RECURSIVE CountKind(_, _)
CountKind(h, k) ==
    IF h = <<>> THEN 0
    ELSE (IF h[Len(h)].kind = k THEN 1 ELSE 0) + CountKind(SubSeq(h, 1, Len(h) - 1), k)

RECURSIVE SumSeq(_)
SumSeq(s) == IF s = <<>> THEN 0 ELSE s[1] + SumSeq(Tail(s))

\* ------------------------------------------------------------ the objective
\* func: a deterministic objective over the points of the space.
Objective(x) == (x - 1) * (x - 1)

\* ------------------------------------------------------------- generators
\* check_random_state(seed): a new generator seeded with an integer.
CheckRandomState(seed) == seed % RngModulus

\* One step of a generator: its next state, which is also the raw number drawn.
Advance(s) == (5 * s + 3) % RngModulus

\* rng.randint(lo, hi) computed from the raw number drawn: a value in lo..hi-1.
RandInt(lo, hi, raw) == lo + (raw % (hi - lo))

\* space.rvs(random_state=rng): one uniformly drawn point, from the raw number.
SamplePoint(raw) == raw % PointCount

\* ---------------------------------------------------------- configuration
X0Choices == {<<>>, <<1>>, <<2, 0>>}

Seeds == {0, 1}

\* y0 as the caller would have measured it at x0 (a noisy reading of func).
MeasuredY0(x0) == [i \in 1 .. Len(x0) |-> Objective(x0[i]) + 1]

\* The arguments of one call of gp_minimize, with the behaviour of the objective
\* (fail_at: the invocation on which func raises, 0 for never) and of the callbacks
\* (the first one asks to stop on its stop_after-th invocation, 0 for never; the
\* others only look at the result).
Configs ==
    { c \in [ x0 : X0Choices, y0given : BOOLEAN,
              n_calls : 0 .. MaxCalls, n_random_starts : 0 .. MaxRandomStarts,
              acq_func : {"gp_hedge", "EI"},
              acq_optimizer : {"auto", "sampling", "lbfgs"},
              space : {"Real", "Mixed", "Categorical"},
              random_state : Seeds, base_estimator : {None, "GP"},
              fail_at : 0 .. MaxCalls, stop_after : 0 .. MaxCalls ] :
        /\ (c.y0given => c.x0 # <<>>)
        /\ (c.fail_at # 0 => c.stop_after = 0)
        /\ c.fail_at <= c.n_calls
        /\ c.stop_after <= c.n_calls }

\* ---------------------------------------------------- initial-point policy
\* (mutant) x0 is evaluated even though y0 came with it.
X0ToEvaluateMutant(c) == Len(c.x0)

\* Points of x0 the objective is evaluated on: all of them when y0 is absent.
X0ToEvaluate(c) == IF c.y0given THEN 0 ELSE Len(c.x0)

\* (mutant) no lower bound on the random starts.
RandomTargetMutant(c) == c.n_random_starts

\* Random points evaluated before the surrogate is used: n_random_starts, and
\* at least one when nothing else seeds the surrogate.
RandomTarget(c) ==
    IF c.x0 = <<>> /\ c.n_random_starts = 0 THEN 1 ELSE c.n_random_starts

\* (mutant) the evaluations of x0 are not taken off the budget.
GuidedBudgetMutant(c) == c.n_calls - c.n_random_starts

\* Evaluations guided by the surrogate model.
GuidedBudget(c) == c.n_calls - X0ToEvaluate(c) - c.n_random_starts

\* Invalid combinations of x0, y0, n_calls and n_random_starts are refused.
Accepted(c) == GuidedBudget(c) >= 0

\* ------------------------------------------------- acquisition optimizer
HasCategorical(space) == space \in {"Mixed", "Categorical"}

IsCategorical(space) == space = "Categorical"

\* (mutant) auto always picks lbfgs.
AcqOptimizerMutant(c) ==
    IF c.acq_optimizer = "auto" THEN "lbfgs" ELSE c.acq_optimizer

\* The backend that minimizes the acquisition function: as selected, and
\* under auto sampling over a Categorical space, lbfgs otherwise.
AcqOptimizer(c) ==
    IF c.acq_optimizer = "auto"
    THEN (IF IsCategorical(c.space) THEN "sampling" ELSE "lbfgs")
    ELSE c.acq_optimizer

\* --------------------------------------------------------------- surrogate
\* A fitted surrogate: the data it was fit on and the seed of its estimator.
FitSurrogate(h, seed) ==
    [X |-> [i \in 1 .. Len(h) |-> h[i].x], y |-> [i \in 1 .. Len(h) |-> h[i].y],
     seed |-> seed]

Observed(m, x) == {i \in 1 .. Len(m.X) : m.X[i] = x}

\* Predictive mean: the last value observed at x, else the mean of the data.
Mu(m, x) ==
    IF Observed(m, x) # {}
    THEN m.y[CHOOSE i \in Observed(m, x) : \A j \in Observed(m, x) : j <= i]
    ELSE IF Len(m.y) = 0 THEN 0 ELSE SumSeq(m.y) \div Len(m.y)

\* Predictive standard deviation: none at an observed point.
Sigma(m, x) == IF Observed(m, x) # {} THEN 0 ELSE 1

YBest(m) ==
    IF Len(m.y) = 0 THEN 0
    ELSE m.y[CHOOSE i \in 1 .. Len(m.y) : \A j \in 1 .. Len(m.y) : m.y[i] <= m.y[j]]

\* Acquisition scores, lower is better (kappa = 2, xi = 0).
Score(m, s, x) ==
    IF s = "LCB" THEN Mu(m, x) - 2 * Sigma(m, x)
    ELSE IF Sigma(m, x) = 0 THEN 0
    ELSE IF s = "EI" THEN 0 - (Max2(YBest(m) - Mu(m, x), 0) + Sigma(m, x))
    ELSE IF YBest(m) - Mu(m, x) > 0 THEN 0 - 2 ELSE 0 - 1

\* The state of a generator n draws after state s.
RECURSIVE AdvanceBy(_, _)
AdvanceBy(s, n) == IF n = 0 THEN s ELSE Advance(AdvanceBy(s, n - 1))

\* The first n points drawn from a generator in state s, in order.
RECURSIVE DrawSeq(_, _)
DrawSeq(s, n) ==
    IF n = 0 THEN <<>> ELSE Append(DrawSeq(s, n - 1), SamplePoint(AdvanceBy(s, n)))

\* n draws of candidate points from a generator in state s: the state after
\* them and the points drawn.
DrawPoints(s, n) == [state |-> AdvanceBy(s, n), points |-> DrawSeq(s, n)]

\* The scores of the points 0..n-1 under surrogate m and strategy s, as a
\* table: the score of point x is entry x + 1.
RECURSIVE Scores(_, _, _)
Scores(m, s, n) ==
    IF n = 0 THEN <<>> ELSE Append(Scores(m, s, n - 1), Score(m, s, n - 1))

\* The first candidate of xs with the lowest score in the table sc.
BestOf(sc, xs) ==
    xs[CHOOSE i \in 1 .. Len(xs) :
          \A j \in 1 .. Len(xs) :
              \/ sc[xs[i] + 1] < sc[xs[j] + 1]
              \/ (sc[xs[i] + 1] = sc[xs[j] + 1] /\ i <= j)]

\* xs without its i-th entry.
Without(xs, i) == SubSeq(xs, 1, i - 1) \o SubSeq(xs, i + 1, Len(xs))

\* xs ordered by score, lowest first (ties by position).
RECURSIVE SortByScore(_, _)
SortByScore(sc, xs) ==
    IF xs = <<>> THEN <<>>
    ELSE LET i == CHOOSE i \in 1 .. Len(xs) :
                     \A j \in 1 .. Len(xs) :
                         \/ sc[xs[i] + 1] < sc[xs[j] + 1]
                         \/ (sc[xs[i] + 1] = sc[xs[j] + 1] /\ i <= j)
         IN <<xs[i]>> \o SortByScore(sc, Without(xs, i))

\* One bounded local search from x: the best point within one step of x.
LocalOptimize(sc, x) ==
    LET near == {y \in Points : y - x \in {0 - 1, 0, 1}}
    IN CHOOSE y \in near :
          \A z \in near : sc[y + 1] < sc[z + 1] \/ (sc[y + 1] = sc[z + 1] /\ y <= z)

\* The local optima reached from each of the start points, in order.
RECURSIVE LocalOptima(_, _)
LocalOptima(sc, starts) ==
    IF starts = <<>> THEN <<>>
    ELSE <<LocalOptimize(sc, Head(starts))>> \o LocalOptima(sc, Tail(starts))

\* One acquisition optimization for strategy s over the sampled candidates xs:
\* the proposed point and the number of local-optimizer calls it made.
\* sampling: the best of the candidates.  lbfgs: the n_restarts_optimizer best
\* candidates start one local search each, and the best optimum is proposed.
Optimize(backend, m, s, xs) ==
    LET sc == Scores(m, s, PointCount)
    IN IF backend = "sampling" THEN [x |-> BestOf(sc, xs), local |-> 0]
       ELSE LET starts == SubSeq(SortByScore(sc, xs), 1, Min2(NRestarts, Len(xs)))
            IN [x |-> BestOf(sc, LocalOptima(sc, starts)), local |-> Len(starts)]

\* ------------------------------------------------------------------- state
VARIABLES
    cfg,            \* the arguments of the call (fixed over both runs)
    run,            \* 1: the first run, 2: the same call made again
    first,          \* what the first run produced, once it is over
    pc,             \* where the call stands
    generators,     \* the generators created so far, by instance number
    rng,            \* gp_minimize's rng: an instance number
    random_state,   \* the instance handed to the driver
    drawn_from,     \* the instances random numbers were drawn from
    est_seed,       \* the seed of the default estimator, Nil if one was passed
    hist,           \* the observation history: records x, y, kind
    func_calls,     \* the points func was invoked on, in order
    pending,        \* the evaluation in flight: <<>> or one record x, kind
    models,         \* the surrogate snapshots, one per fit
    gains,          \* the hedge gains, one per base strategy
    next_xs,        \* the candidates the base strategies proposed last, <<>> at first
    next_x,         \* the candidate chosen for evaluation
    local_calls,    \* calls of the local optimizer
    cb_count,       \* invocations of each callback
    cb_seen,        \* the history length each callback saw last
    outcome,        \* running, ok, stopped, error, config_error
    error           \* the error that reached the caller, NoError if none

vars == <<cfg, run, first, pc, generators, rng, random_state, drawn_from, est_seed,
          hist, func_calls, pending, models, gains, next_xs, next_x, local_calls,
          cb_count, cb_seen, outcome, error>>

ZeroGains == [i \in StrategyIds |-> 0]

\* The state before gp_minimize is called.
Fresh ==
    /\ pc = "idle"
    /\ generators = <<>>
    /\ rng = 0
    /\ random_state = 0
    /\ drawn_from = {}
    /\ est_seed = Nil
    /\ hist = <<>>
    /\ func_calls = <<>>
    /\ pending = <<>>
    /\ models = <<>>
    /\ gains = ZeroGains
    /\ next_xs = <<>>
    /\ next_x = Nil
    /\ local_calls = 0
    /\ cb_count = [i \in 1 .. NCallbacks |-> 0]
    /\ cb_seen = [i \in 1 .. NCallbacks |-> 0]
    /\ outcome = "running"
    /\ error = NoError

Init ==
    /\ cfg \in Configs
    /\ run = 1
    /\ first = [hist |-> <<>>, outcome |-> "none", error |-> NoError]
    /\ Fresh

\* The generator the driver draws from.
DriverState == generators[random_state]

\* (mutant) the random starts come before the points of x0.
PhaseMutant(c, h) ==
    IF CountKind(h, "random") < RandomTarget(c) THEN "random"
    ELSE IF CountKind(h, "x0") < X0ToEvaluate(c) THEN "x0"
    ELSE IF CountKind(h, "guided") < GuidedBudget(c) THEN "fit"
    ELSE "done"

\* Where the driver goes next, from the history h: the x0 points first, then
\* the random starts, then the guided iterations.
Phase(c, h) ==
    IF CountKind(h, "x0") < X0ToEvaluate(c) THEN "x0"
    ELSE IF CountKind(h, "random") < RandomTarget(c) THEN "random"
    ELSE IF CountKind(h, "guided") < GuidedBudget(c) THEN "fit"
    ELSE "done"

\* (mutant) the driver gets a generator of its own, seeded from the system.
GpMinimizeMutant ==
    /\ pc = "idle"
    /\ LET g0 == CheckRandomState(cfg.random_state)
           g1 == Advance(g0)
       IN \E fresh \in 0 .. (RngModulus - 1) :
            IF cfg.base_estimator = None
            THEN /\ generators' = <<g1, fresh>>
                 /\ est_seed' = RandInt(0, Int32Max, g1)
                 /\ drawn_from' = {1}
            ELSE /\ generators' = <<g0, fresh>>
                 /\ est_seed' = Nil
                 /\ drawn_from' = {}
    /\ rng' = 1
    /\ random_state' = 2
    /\ pc' = "base_minimize"
    /\ UNCHANGED <<cfg, run, first, hist, func_calls, pending, models, gains, next_xs,
                   next_x, local_calls, cb_count, cb_seen, outcome, error>>

\* gp_minimize up to its call of base_minimize: the generator is created from
\* random_state, the default estimator takes its seed from it, and the same
\* generator is handed on.
GpMinimize ==
    /\ pc = "idle"
    /\ LET g0 == CheckRandomState(cfg.random_state)
           g1 == Advance(g0)
       IN IF cfg.base_estimator = None
          THEN /\ generators' = <<g1>>
               /\ est_seed' = RandInt(0, Int32Max, g1)
               /\ drawn_from' = {1}
          ELSE /\ generators' = <<g0>>
               /\ est_seed' = Nil
               /\ drawn_from' = {}
    /\ rng' = 1
    /\ random_state' = 1
    /\ pc' = "base_minimize"
    /\ UNCHANGED <<cfg, run, first, hist, func_calls, pending, models, gains, next_xs,
                   next_x, local_calls, cb_count, cb_seen, outcome, error>>

\* The driver checks its arguments before any evaluation and records the
\* (x0, y0) pairs it was given without calling the objective.
BaseMinimize ==
    /\ pc = "base_minimize"
    /\ IF ~Accepted(cfg)
       THEN /\ outcome' = "config_error"
            /\ error' = [type |-> "ConfigurationError", call |-> 0]
            /\ pc' = "done"
            /\ hist' = hist
       ELSE /\ hist' = IF cfg.y0given
                       THEN [i \in 1 .. Len(cfg.x0) |->
                                [x |-> cfg.x0[i], y |-> MeasuredY0(cfg.x0)[i], kind |-> "prior"]]
                       ELSE <<>>
            /\ pc' = Phase(cfg, hist')
            /\ outcome' = IF pc' = "done" THEN "ok" ELSE "running"
            /\ error' = NoError
    /\ UNCHANGED <<cfg, run, first, generators, rng, random_state, drawn_from, est_seed,
                   func_calls, pending, models, gains, next_xs, next_x, local_calls,
                   cb_count, cb_seen>>

\* The objective is invoked on point x.
Invoke(x, kind) ==
    /\ pending' = <<[x |-> x, kind |-> kind]>>
    /\ func_calls' = Append(func_calls, x)
    /\ pc' = "func"

\* The next point of x0 goes to the objective.
EvaluateX0 ==
    /\ pc = "x0"
    /\ Invoke(cfg.x0[CountKind(hist, "x0") + 1], "x0")
    /\ UNCHANGED <<cfg, run, first, generators, rng, random_state, drawn_from, est_seed,
                   hist, models, gains, next_xs, next_x, local_calls,
                   cb_count, cb_seen, outcome, error>>

\* A point drawn at random goes to the objective.
EvaluateRandom ==
    /\ pc = "random"
    /\ LET t == Advance(DriverState)
       IN /\ generators' = [generators EXCEPT ![random_state] = t]
          /\ Invoke(SamplePoint(t), "random")
    /\ drawn_from' = drawn_from \cup {random_state}
    /\ UNCHANGED <<cfg, run, first, rng, random_state, est_seed,
                   hist, models, gains, next_xs, next_x, local_calls,
                   cb_count, cb_seen, outcome, error>>

\* (mutant) the one estimator object is refit in place and stored once more.
RefitMutant(ms, h, seed) == [k \in 1 .. (Len(ms) + 1) |-> FitSurrogate(h, seed)]

\* A refit: a new snapshot, fit on the whole history, is stored after the others.
Refit(ms, h, seed) == Append(ms, FitSurrogate(h, seed))

\* (mutant) the gains start from zero again at every update.
UpdateGainsMutant(g, m, xs) == [i \in StrategyIds |-> 0 - Mu(m, xs[i])]

\* The hedge update after a refit: every base strategy loses the mean the new
\* surrogate m predicts at the candidate xs[i] that strategy proposed.
UpdateGains(g, m, xs) == [i \in StrategyIds |-> g[i] - Mu(m, xs[i])]

\* The surrogate is fit on the history recorded so far; under gp_hedge the
\* gains are then updated with the candidates of the iteration before.
Fit ==
    /\ pc = "fit"
    /\ models' = Refit(models, hist, est_seed)
    /\ gains' = IF cfg.acq_func = "gp_hedge" /\ next_xs # <<>>
                THEN UpdateGains(gains, models'[Len(models')], next_xs)
                ELSE gains
    /\ pc' = "ask"
    /\ UNCHANGED <<cfg, run, first, generators, rng, random_state, drawn_from, est_seed,
                   hist, func_calls, pending, next_xs, next_x, local_calls,
                   cb_count, cb_seen, outcome, error>>

\* The proposals of the base strategies 1..k, each from its own sampled
\* candidates, the strategies drawing from the generator one after the other.
RECURSIVE Proposals(_, _, _, _)
Proposals(s, m, backend, k) ==
    IF k = 0 THEN <<>>
    ELSE Append(Proposals(s, m, backend, k - 1),
                Optimize(backend, m, Strategies[k],
                         DrawSeq(AdvanceBy(s, (k - 1) * NPoints), NPoints)))

\* One proposal per base strategy: the generator's state after them, the
\* candidates and the number of local-optimizer calls.
ProposeAll(s, m, backend) ==
    LET o == Proposals(s, m, backend, Len(Strategies))
    IN [state |-> AdvanceBy(s, Len(Strategies) * NPoints),
        xs |-> [k \in StrategyIds |-> o[k].x],
        local |-> SumSeq([k \in StrategyIds |-> o[k].local])]

\* softmax(eta * gains) in whole numbers: a positive weight per base strategy
\* that grows with its gain.
Weights(g) ==
    LET lo == CHOOSE v \in {g[i] : i \in StrategyIds} : \A i \in StrategyIds : v <= g[i]
    IN [i \in StrategyIds |-> 1 + g[i] - lo]

\* The base strategy a raw draw selects under the weights w.
Select(w, raw) ==
    LET u == raw % SumSeq(w)
    IN CHOOSE i \in StrategyIds :
          /\ u < SumSeq(SubSeq(w, 1, i))
          /\ u >= SumSeq(SubSeq(w, 1, i - 1))

\* The candidate to evaluate next is proposed by the acquisition optimizer
\* from the last surrogate (under gp_hedge: one candidate per base strategy,
\* one of them selected at random by the gains).
Ask ==
    /\ pc = "ask"
    /\ LET m == models[Len(models)]
           backend == AcqOptimizer(cfg)
       IN IF cfg.acq_func = "gp_hedge"
          THEN LET r == ProposeAll(DriverState, m, backend)
                   t == Advance(r.state)
               IN /\ generators' = [generators EXCEPT ![random_state] = t]
                  /\ next_xs' = r.xs
                  /\ next_x' = r.xs[Select(Weights(gains), t)]
                  /\ local_calls' = local_calls + r.local
          ELSE LET d == DrawPoints(DriverState, NPoints)
                   o == Optimize(backend, m, cfg.acq_func, d.points)
               IN /\ generators' = [generators EXCEPT ![random_state] = d.state]
                  /\ next_xs' = next_xs
                  /\ next_x' = o.x
                  /\ local_calls' = local_calls + o.local
    /\ drawn_from' = drawn_from \cup {random_state}
    /\ pc' = "guided"
    /\ UNCHANGED <<cfg, run, first, rng, random_state, est_seed,
                   hist, func_calls, pending, models, gains,
                   cb_count, cb_seen, outcome, error>>

\* The chosen candidate goes to the objective.
EvaluateGuided ==
    /\ pc = "guided"
    /\ Invoke(next_x, "guided")
    /\ UNCHANGED <<cfg, run, first, generators, rng, random_state, drawn_from, est_seed,
                   hist, models, gains, next_xs, next_x, local_calls,
                   cb_count, cb_seen, outcome, error>>

\* The error func raises on its k-th invocation.
Raised(k) == [type |-> "raised by func", call |-> k]

\* (mutant) the error is caught and another one raised in its place.
PropagatedMutant(e) == [type |-> "ObjectiveEvaluationError", call |-> e.call]

\* What reaches the caller of gp_minimize when the objective raises e: nothing
\* on the way catches it.
Propagated(e) == e

\* The observation recorded for a completed evaluation.
Record(h, p) == Append(h, [x |-> p.x, y |-> Objective(p.x), kind |-> p.kind])

\* The objective returns: the observation is recorded and the callbacks are due.
FuncReturns ==
    /\ pc = "func"
    /\ Len(func_calls) # cfg.fail_at
    /\ hist' = Record(hist, pending[1])
    /\ pending' = <<>>
    /\ pc' = "callback"
    /\ UNCHANGED <<cfg, run, first, generators, rng, random_state, drawn_from, est_seed,
                   func_calls, models, gains, next_xs, next_x, local_calls,
                   cb_count, cb_seen, outcome, error>>

\* The objective raises: the run is over and the error goes to the caller.
FuncRaises ==
    /\ pc = "func"
    /\ Len(func_calls) = cfg.fail_at
    /\ pending' = <<>>
    /\ outcome' = "error"
    /\ error' = Propagated(Raised(Len(func_calls)))
    /\ pc' = "done"
    /\ UNCHANGED <<cfg, run, first, generators, rng, random_state, drawn_from, est_seed,
                   hist, func_calls, models, gains, next_xs, next_x, local_calls,
                   cb_count, cb_seen>>

\* A callback asks to stop: the first one does, on its stop_after-th invocation.
AsksToStop(c, i, count) == i = 1 /\ c.stop_after # 0 /\ count = c.stop_after

\* (mutant) the callbacks after the one that asks to stop are not called.
CallbacksMutant ==
    /\ pc = "callback"
    /\ cb_count' = [i \in 1 .. NCallbacks |->
                      IF \E j \in 1 .. (i - 1) : AsksToStop(cfg, j, cb_count[j] + 1)
                      THEN cb_count[i] ELSE cb_count[i] + 1]
    /\ cb_seen' = [i \in 1 .. NCallbacks |->
                      IF cb_count'[i] = cb_count[i] THEN cb_seen[i] ELSE Len(hist)]
    /\ LET stop == \E i \in 1 .. NCallbacks : AsksToStop(cfg, i, cb_count'[i])
       IN /\ pc' = IF stop THEN "done" ELSE Phase(cfg, hist)
          /\ outcome' = IF stop THEN "stopped"
                        ELSE IF pc' = "done" THEN "ok" ELSE "running"
    /\ UNCHANGED <<cfg, run, first, generators, rng, random_state, drawn_from, est_seed,
                   hist, func_calls, pending, models, gains, next_xs, next_x, local_calls,
                   error>>

\* After a call of func every callback is called with the partial result; if
\* one of them asked to stop the run ends, and it goes on otherwise.
Callbacks ==
    /\ pc = "callback"
    /\ cb_count' = [i \in 1 .. NCallbacks |-> cb_count[i] + 1]
    /\ cb_seen' = [i \in 1 .. NCallbacks |-> Len(hist)]
    /\ LET stop == \E i \in 1 .. NCallbacks : AsksToStop(cfg, i, cb_count'[i])
       IN /\ pc' = IF stop THEN "done" ELSE Phase(cfg, hist)
          /\ outcome' = IF stop THEN "stopped"
                        ELSE IF pc' = "done" THEN "ok" ELSE "running"
    /\ UNCHANGED <<cfg, run, first, generators, rng, random_state, drawn_from, est_seed,
                   hist, func_calls, pending, models, gains, next_xs, next_x, local_calls,
                   error>>

\* The caller makes the same call again: same arguments, same seed, same
\* objective and callbacks.
Rerun ==
    /\ pc = "done"
    /\ run = 1
    /\ run' = 2
    /\ first' = [hist |-> hist, outcome |-> outcome, error |-> error]
    /\ pc' = "idle"
    /\ generators' = <<>>
    /\ rng' = 0
    /\ random_state' = 0
    /\ drawn_from' = {}
    /\ est_seed' = Nil
    /\ hist' = <<>>
    /\ func_calls' = <<>>
    /\ pending' = <<>>
    /\ models' = <<>>
    /\ gains' = ZeroGains
    /\ next_xs' = <<>>
    /\ next_x' = Nil
    /\ local_calls' = 0
    /\ cb_count' = [i \in 1 .. NCallbacks |-> 0]
    /\ cb_seen' = [i \in 1 .. NCallbacks |-> 0]
    /\ outcome' = "running"
    /\ error' = NoError
    /\ UNCHANGED cfg

Next ==
    \/ GpMinimize
    \/ BaseMinimize
    \/ EvaluateX0
    \/ EvaluateRandom
    \/ Fit
    \/ Ask
    \/ EvaluateGuided
    \/ FuncReturns
    \/ FuncRaises
    \/ Callbacks

Spec == Init /\ [][Next]_vars

\* The same with the call made a second time.
NextTwice == Next \/ Rerun

SpecTwice == Init /\ [][NextTwice]_vars

\* ------------------------------------------------------------ properties
\* The (x0, y0) pairs recorded without a call of the objective.
Supplied == IF cfg.y0given THEN Len(cfg.x0) ELSE 0

\* The driver has accepted the arguments and recorded what it was given.
Started == pc \notin {"idle", "base_minimize"} /\ outcome # "config_error"

\* Evaluations of the objective that returned and were recorded.
Completed == CountKind(hist, "x0") + CountKind(hist, "random") + CountKind(hist, "guided")

\* Initial points recorded: what the first surrogate was fit on, everything
\* recorded as long as there is no surrogate.
InitialRecorded == IF models = <<>> THEN Len(hist) ELSE Len(models[1].X)

GuidedRecorded == CountKind(hist, "guided")

\* The history length of a run that ends normally: one entry per call of the
\* objective (n_calls of them, and the seeding point when n_random_starts is 0
\* and x0 absent) and one per supplied pair.
FullLength == cfg.n_calls + (RandomTarget(cfg) - cfg.n_random_starts) + Supplied

C2_X0ThenRandomThenGuided ==
    (cfg.x0 # <<>> /\ ~cfg.y0given) =>
        LET k == Len(cfg.x0)
            r == cfg.n_random_starts
            KindAt(i) == IF i <= k THEN "x0" ELSE IF i <= k + r THEN "random" ELSE "guided"
        IN /\ \A i \in 1 .. Len(hist) : hist[i].kind = KindAt(i)
           /\ \A i \in 1 .. Min2(k, Len(hist)) :
                 hist[i].x = cfg.x0[i] /\ hist[i].y = Objective(cfg.x0[i])
           /\ \A i \in 1 .. Min2(k, Len(func_calls)) : func_calls[i] = cfg.x0[i]
           /\ (pending # <<>> => pending[1].kind = KindAt(Len(hist) + 1))
           /\ (models # <<>> => Len(hist) >= k + r)
           /\ (outcome = "ok" =>
                 /\ CountKind(hist, "x0") = k
                 /\ CountKind(hist, "random") = r
                 /\ CountKind(hist, "guided") = cfg.n_calls - k - r)

C2_Witness ==
    /\ outcome = "ok"
    /\ Len(cfg.x0) = 2
    /\ ~cfg.y0given
    /\ cfg.n_random_starts = 1
    /\ CountKind(hist, "guided") >= 1

\* C3: with x0 and y0 the pairs are recorded without a call of the objective;
\* then come exactly n_random_starts random points and n_calls -
\* n_random_starts guided ones, so a run that ends normally has called the
\* objective exactly n_calls times.
C3_PairsNotEvaluated ==
    cfg.y0given =>
        LET k == Len(cfg.x0)
            r == cfg.n_random_starts
        IN IF ~Started THEN func_calls = <<>> /\ hist = <<>>
           ELSE /\ Len(hist) >= k
                /\ \A i \in 1 .. k :
                      hist[i] = [x |-> cfg.x0[i], y |-> MeasuredY0(cfg.x0)[i], kind |-> "prior"]
                /\ \A i \in (k + 1) .. Len(hist) :
                      /\ hist[i].kind = IF i <= k + r THEN "random" ELSE "guided"
                      /\ hist[i].x = func_calls[i - k]
                /\ Len(func_calls) =
                      (Len(hist) - k) + (IF pending # <<>> \/ outcome = "error" THEN 1 ELSE 0)
                /\ (outcome = "ok" =>
                      /\ Len(func_calls) = cfg.n_calls
                      /\ CountKind(hist, "random") = r
                      /\ CountKind(hist, "guided") = cfg.n_calls - r)

C3_Witness ==
    /\ outcome = "ok"
    /\ cfg.y0given
    /\ cfg.n_random_starts = 1
    /\ cfg.n_calls >= 3

\* C4 as stated: when the objective raises on its k-th invocation the run is
\* over, the caller gets the error the objective raised, the history holds
\* exactly k-1 observations and the objective is not invoked again.
C4_Original ==
    /\ (cfg.fail_at # 0 => Len(func_calls) <= cfg.fail_at)
    /\ (outcome = "error" =>
          /\ pc = "done"
          /\ pending = <<>>
          /\ error = Raised(cfg.fail_at)
          /\ Len(func_calls) = cfg.fail_at
          /\ Len(hist) = cfg.fail_at - 1)

\* C4 as amended: when the objective raises on its k-th invocation the run is
\* over, the caller gets the error the objective raised, the history holds
\* exactly what was recorded before it (the supplied (x0, y0) pairs, if any,
\* and the results of the k-1 earlier invocations, nothing for the failing
\* point) and the objective is not invoked again.
C4_AbortOnRaise ==
    /\ (cfg.fail_at # 0 => Len(func_calls) <= cfg.fail_at)
    /\ (outcome = "error" =>
          /\ pc = "done"
          /\ pending = <<>>
          /\ error = Raised(cfg.fail_at)
          /\ Len(func_calls) = cfg.fail_at
          /\ Len(hist) = Supplied + cfg.fail_at - 1
          /\ \A i \in 1 .. (cfg.fail_at - 1) :
                /\ hist[Supplied + i].x = func_calls[i]
                /\ hist[Supplied + i].y = Objective(func_calls[i]))

C4_Witness ==
    /\ outcome = "error"
    /\ cfg.y0given
    /\ cfg.fail_at >= 2
    /\ models # <<>>

\* C5: every callback is called after each call of the objective with the
\* current partial result; when one asks to stop, the run ends normally with
\* the observations completed so far and without another call of the
\* objective; a stop never takes effect while an evaluation is in flight.
C5_Callbacks ==
    /\ \A i \in 1 .. NCallbacks :
          /\ cb_count[i] = IF pc = "callback" THEN Completed - 1 ELSE Completed
          /\ (cb_count[i] > 0 =>
                cb_seen[i] = IF pc = "callback" THEN Len(hist) - 1 ELSE Len(hist))
    /\ (pending # <<>> => pc = "func" /\ outcome = "running")
    /\ (cfg.stop_after # 0 => Len(func_calls) <= cfg.stop_after)
    /\ (outcome = "stopped" =>
          /\ pc = "done"
          /\ pending = <<>>
          /\ error = NoError
          /\ cfg.stop_after # 0
          /\ Len(func_calls) = cfg.stop_after
          /\ Len(hist) = Supplied + cfg.stop_after)

C5_Witness ==
    /\ outcome = "stopped"
    /\ cfg.stop_after >= 2
    /\ cb_count[NCallbacks] = cfg.stop_after
    /\ Len(hist) < FullLength

C7_HedgeGains ==
    /\ (cfg.acq_func = "gp_hedge" => gains = ZeroGains)
    /\ [][cfg.acq_func = "gp_hedge" =>
            /\ DOMAIN gains' = StrategyIds
            /\ (Len(models') <= 1 => gains' = ZeroGains)
            /\ IF pc = "fit" /\ next_xs # <<>>
               THEN \A i \in StrategyIds :
                       gains'[i] = gains[i] - Mu(FitSurrogate(hist, est_seed), next_xs[i])
               ELSE gains' = gains]_vars

C7_Witness ==
    /\ cfg.acq_func = "gp_hedge"
    /\ Len(models) >= 3
    /\ \E i \in StrategyIds : gains[i] # 0
    /\ \E i, j \in StrategyIds : next_xs[i] # next_xs[j]

C9_Reproducible ==
    /\ (generators # <<>> =>
          /\ Len(generators) = 1
          /\ random_state = rng
          /\ drawn_from \subseteq {rng})
    /\ (pc # "idle" /\ cfg.base_estimator = None => est_seed # Nil /\ rng \in drawn_from)
    /\ (run = 2 =>
          /\ IsPrefix(hist, first.hist)
          /\ (pc = "done" =>
                hist = first.hist /\ outcome = first.outcome /\ error = first.error))

C9_Witness ==
    /\ run = 2
    /\ pc = "done"
    /\ outcome = "ok"
    /\ cfg.base_estimator = None
    /\ CountKind(hist, "random") >= 1
    /\ CountKind(hist, "guided") >= 2

\* C10: the k-th surrogate snapshot is the fit on exactly the observations
\* recorded before the k-th guided iteration proposed, and stays so; there is
\* one snapshot per guided iteration, and the candidate is proposed from the
\* fit on the whole history.
C10_SnapshotsMatchPrefix ==
    LET g == CountKind(hist, "guided")
        n0 == Len(hist) - g
    IN /\ Len(models) >= g
       /\ Len(models) <= g + 1
       /\ \A k \in 1 .. Len(models) :
             models[k] = FitSurrogate(SubSeq(hist, 1, n0 + k - 1), est_seed)
       /\ (pc \in {"ask", "guided"} =>
             Len(models) = g + 1 /\ models[Len(models)] = FitSurrogate(hist, est_seed))
       /\ (pc \in {"fit", "callback"} \/ outcome \in {"ok", "stopped"} => Len(models) = g)

C10_Witness ==
    /\ pc = "guided"
    /\ Len(models) >= 3
    /\ models[1] # models[2]

====
